---------------------------- MODULE Spec2Model ----------------------------
(***************************************************************************)
(* Transaction / inventory consistency engine of the clinic application:   *)
(* createTransaction, updateTransactionStatus, createStockMovement and     *)
(* adjustStock over the relational tables of server/src/db/schema.ts,      *)
(* with the maintenance, patient visit and settings handlers around them.  *)
(*                                                                         *)
(* Currency columns are numeric(10,2); they are modelled as integers in    *)
(* hundredths (the value the column stores after the handler's             *)
(* parseFloat / toString round trip).  Timestamps are values of a logical  *)
(* clock that advances by one per request.                                 *)
(***************************************************************************)
EXTENDS Integers, Sequences, FiniteSets, TLC

VARIABLES
    patients,               \* set of patient ids (patientsTable)
    services,               \* id -> [price, is_active, updated_at] (servicesTable)
    medicines,              \* id -> [price_per_unit, stock_quantity, updated_at]
    transactions,           \* id -> [patient_id, total_amount, payment_status, notes, updated_at]
    transaction_services,   \* sequence of rows, in insertion order
    transaction_medicines,  \* sequence of rows, in insertion order
    stock_movements,        \* sequence of rows, in insertion order
    patient_visits,         \* sequence of rows, in insertion order
    settings,               \* sequence of rows [key, value, updated_at] (settingsTable)
    nextId,                 \* the serial sequences of transactions and stock_movements
    clock,                  \* logical time: the number of requests received
    stockEdits,             \* the number of createStockMovement and adjustStock requests
    adminEdits,             \* the number of catalog and record maintenance requests
    last,                   \* the most recent request and its outcome
    sessions                \* the requests whose statements interleave with others'

tables == <<patients, services, medicines, transactions, transaction_services,
            transaction_medicines, stock_movements, patient_visits, settings,
            nextId>>

vars == <<patients, services, medicines, transactions, transaction_services,
          transaction_medicines, stock_movements, patient_visits, settings,
          nextId, clock, stockEdits, adminEdits, last, sessions>>

-----------------------------------------------------------------------------
(* Bounds of the model *)

MaxOps == 4          \* requests per run
MaxStockEdits == 1   \* createStockMovement and adjustStock requests per run
MaxSessions == 4     \* requests per run whose statements interleave
MaxInFlight == 2     \* requests between their first read and their commit

Quantities == 1..2          \* quantities of line items and manual movements
StockTargets == (-1)..2     \* newQuantity of adjustStock

PatientIds == {1}
ServiceIds == {1, 2}        \* service 2 is inactive
MedicineIds == {1, 2}
InitialStock == <<2, 1>>    \* stock_quantity of each medicine in the initial state
UnknownId == 9              \* an id no table holds

PaymentStatuses == {"pending", "paid", "cancelled"}
MovementTypes == {"masuk", "keluar"}
NULL == 0                   \* SQL NULL in an integer column (ids start at 1)

SeqsUpTo(S, n) == UNION {[1..k -> S] : k \in 0..n}

\* line items; the quantity of a line naming an unknown id is never read
ServiceLines ==
    [service_id : ServiceIds, quantity : Quantities]
    \cup [service_id : {UnknownId}, quantity : {1}]
MedicineLines ==
    [medicine_id : MedicineIds, quantity : Quantities]
    \cup [medicine_id : {UnknownId}, quantity : {1}]

CreateTransactionInputs ==
    [patient_id : PatientIds \cup {UnknownId},
     payment_status : PaymentStatuses,
     notes : {NULL},
     services : SeqsUpTo(ServiceLines, 1),
     medicines : SeqsUpTo(MedicineLines, 2)]

TransactionIds == {1}       \* the ids the serial sequence of transactions may issue

CreateStockMovementInputs ==
    [medicine_id : MedicineIds \cup {UnknownId},
     movement_type : MovementTypes,
     quantity : Quantities,
     reference_id : {NULL} \cup TransactionIds]

-----------------------------------------------------------------------------
(* The database as one value, so that a handler is a function from the     *)
(* database to an outcome and db.transaction can commit or discard it.     *)

Db == [patients |-> patients, services |-> services, medicines |-> medicines,
       transactions |-> transactions,
       transaction_services |-> transaction_services,
       transaction_medicines |-> transaction_medicines,
       stock_movements |-> stock_movements,
       patient_visits |-> patient_visits,
       settings |-> settings,
       nextId |-> nextId]

\* The outcome of a handler's callback: it returned (err = "ok") or threw.
\* `line` is the position of the line item it threw at (0: not at a line item).
Ok(d) == [err |-> "ok", line |-> 0, db |-> d]
Throw(e, line, d) == [err |-> e, line |-> line, db |-> d]

RECURSIVE SumSeq(_)
SumSeq(s) == IF s = <<>> THEN 0 ELSE Head(s) + SumSeq(Tail(s))


-----------------------------------------------------------------------------
(* Row constructors and single statements *)

\* The notes column of a movement holds one of the handlers' templates or the
\* caller's text; it is modelled by the template's name.
NotesSale == "Medicine used in transaction"
NotesCancel == "Pembatalan transaksi"
NotesReactivate == "Reaktivasi transaksi"
NotesAdjust == "Stock adjustment"
NotesInput == "input.notes"

StockMovementRow(d, medicine_id, movement_type, quantity, reference_id, notes) ==
    [id |-> d.nextId.stock_movements, medicine_id |-> medicine_id,
     movement_type |-> movement_type, quantity |-> quantity,
     reference_id |-> reference_id, notes |-> notes]

\* tx.insert(stockMovementsTable).values({...})
InsertStockMovement(d, medicine_id, movement_type, quantity, reference_id, notes) ==
    [d EXCEPT !.stock_movements =
                  Append(@, StockMovementRow(d, medicine_id, movement_type,
                                             quantity, reference_id, notes)),
              !.nextId.stock_movements = @ + 1]

\* tx.update(medicinesTable).set({stock_quantity: <value>, updated_at: new Date()})
SetStock(d, medicine_id, stock_quantity, now) ==
    [d EXCEPT !.medicines[medicine_id].stock_quantity = stock_quantity,
              !.medicines[medicine_id].updated_at = now]

\* db.transaction(async (tx) => ...): the writes of the callback are committed
\* when it returns and discarded when it throws.
Transact(d, outcome) ==
    [outcome EXCEPT !.db = IF outcome.err = "ok" THEN @ ELSE d]

-----------------------------------------------------------------------------
(* createTransaction *)

\* step 2: each requested service exists and is active
RECURSIVE ValidateServices(_, _, _)
ValidateServices(d, lines, i) ==
    IF i > Len(lines) THEN Ok(d)
    ELSE LET serviceItem == lines[i] IN
         IF serviceItem.service_id \notin DOMAIN d.services
         THEN Throw("service_not_found", i, d)
         ELSE IF ~d.services[serviceItem.service_id].is_active
              THEN Throw("service_inactive", i, d)
         ELSE ValidateServices(d, lines, i + 1)

\* step 3: each requested medicine exists and has, on its own line, enough
\* stock; every line is compared with the stored stock_quantity
RECURSIVE ValidateMedicines(_, _, _)
ValidateMedicines(d, lines, i) ==
    IF i > Len(lines) THEN Ok(d)
    ELSE LET medicineItem == lines[i] IN
         IF medicineItem.medicine_id \notin DOMAIN d.medicines
         THEN Throw("medicine_not_found", i, d)
         ELSE IF d.medicines[medicineItem.medicine_id].stock_quantity
                 < medicineItem.quantity
              THEN Throw("insufficient_stock", i, d)
         ELSE ValidateMedicines(d, lines, i + 1)

serviceTotal(d, lines) ==
    SumSeq([i \in 1..Len(lines) |->
              d.services[lines[i].service_id].price * lines[i].quantity])

\* (variant: the quantity of a medicine line is left out of the total)
medicineTotalOfUnitPrices(d, lines) ==
    SumSeq([i \in 1..Len(lines) |->
              d.medicines[lines[i].medicine_id].price_per_unit])

medicineTotal(d, lines) ==
    SumSeq([i \in 1..Len(lines) |->
              d.medicines[lines[i].medicine_id].price_per_unit * lines[i].quantity])

\* step 5: the header row, with the next value of the serial id
InsertTransaction(d, input, totalAmount, now) ==
    [d EXCEPT !.transactions =
                  [i \in DOMAIN @ \cup {d.nextId.transactions} |->
                     IF i = d.nextId.transactions
                     THEN [patient_id |-> input.patient_id,
                           total_amount |-> totalAmount,
                           payment_status |-> input.payment_status,
                           notes |-> input.notes,
                           updated_at |-> now]
                     ELSE @[i]],
              !.nextId.transactions = @ + 1]

\* step 6: one transaction_services row per service line
RECURSIVE InsertTransactionServices(_, _, _)
InsertTransactionServices(d, id, lines) ==
    IF lines = <<>> THEN d
    ELSE LET item == Head(lines)
             servicePrice == d.services[item.service_id].price
             row == [transaction_id |-> id, service_id |-> item.service_id,
                     quantity |-> item.quantity, price_per_unit |-> servicePrice,
                     total_price |-> servicePrice * item.quantity]
         IN InsertTransactionServices(
                [d EXCEPT !.transaction_services = Append(@, row)], id, Tail(lines))

\* (variant: one unit is taken per line, whatever its quantity)
DecrementedByOne(stock_quantity, quantity) == stock_quantity - 1

\* sql`${medicinesTable.stock_quantity} - ${medicineItem.quantity}`
Decremented(stock_quantity, quantity) == stock_quantity - quantity

\* step 7: per medicine line a transaction_medicines row, the relative
\* decrement of the stock, and a 'keluar' movement
RECURSIVE InsertTransactionMedicines(_, _, _, _)
InsertTransactionMedicines(d, id, lines, now) ==
    IF lines = <<>> THEN d
    ELSE LET item == Head(lines)
             medicinePrice == d.medicines[item.medicine_id].price_per_unit
             row == [transaction_id |-> id, medicine_id |-> item.medicine_id,
                     quantity |-> item.quantity, price_per_unit |-> medicinePrice,
                     total_price |-> medicinePrice * item.quantity]
             d1 == [d EXCEPT !.transaction_medicines = Append(@, row)]
             d2 == SetStock(d1, item.medicine_id,
                            Decremented(d1.medicines[item.medicine_id].stock_quantity,
                                        item.quantity),
                            now)
             d3 == InsertStockMovement(d2, item.medicine_id, "keluar",
                                       item.quantity, id, NotesSale)
         IN InsertTransactionMedicines(d3, id, Tail(lines), now)

\* step 8: the patient visit of the sale
\* (variant: the visit is inserted without the transaction's id)
InsertPatientVisitUnlinked(d, patient_id, transaction_id, now) ==
    [d EXCEPT !.patient_visits =
                  Append(@, [patient_id |-> patient_id,
                             transaction_id |-> NULL,
                             visit_date |-> now])]

InsertPatientVisit(d, patient_id, transaction_id, now) ==
    [d EXCEPT !.patient_visits =
                  Append(@, [patient_id |-> patient_id,
                             transaction_id |-> transaction_id,
                             visit_date |-> now])]

\* The statements of the callback handed to db.transaction.  Steps 1 to 3
\* only read; `read` is the database as their SELECTs returned it and d the
\* database the statements of steps 5 to 8 act on.
createTransactionStatements(read, d, input, now) ==
    IF input.patient_id \notin read.patients THEN Throw("patient_not_found", 0, d)
    ELSE IF ValidateServices(read, input.services, 1).err # "ok"
         THEN [ValidateServices(read, input.services, 1) EXCEPT !.db = d]
    ELSE IF ValidateMedicines(read, input.medicines, 1).err # "ok"
         THEN [ValidateMedicines(read, input.medicines, 1) EXCEPT !.db = d]
    ELSE LET totalAmount == serviceTotal(read, input.services)
                            + medicineTotal(read, input.medicines)
             id == d.nextId.transactions
             d5 == InsertTransaction(d, input, totalAmount, now)
             d6 == InsertTransactionServices(d5, id, input.services)
             d7 == InsertTransactionMedicines(d6, id, input.medicines, now)
             d8 == InsertPatientVisit(d7, input.patient_id, id, now)
         IN Ok(d8)

\* the callback when no other request commits while it runs
createTransactionBody(d, input, now) ==
    createTransactionStatements(d, d, input, now)

\* (variant: the header is inserted before the request is validated and no
\* enclosing transaction discards it)
createTransactionCallHeaderFirst(d, input, now) ==
    LET outcome == createTransactionBody(d, input, now) IN
    IF outcome.err = "ok" THEN outcome
    ELSE [outcome EXCEPT !.db = InsertTransaction(d, input, 0, now)]

createTransactionCall(d, input, now) ==
    Transact(d, createTransactionBody(d, input, now))

-----------------------------------------------------------------------------
(* updateTransactionStatus *)

\* cancel branch: every 'keluar' movement selected by reference_id = id is
\* answered by an absolute stock write and a 'masuk' movement
RECURSIVE ReverseStockMovements(_, _, _, _, _)
ReverseStockMovements(d, id, stockMovements, i, now) ==
    IF i > Len(stockMovements) THEN Ok(d)
    ELSE LET movement == stockMovements[i] IN
         IF movement.movement_type = "keluar"
         THEN IF movement.medicine_id \notin DOMAIN d.medicines
              THEN Throw("medicine_not_found", i, d)
              ELSE LET newStockQuantity ==
                           d.medicines[movement.medicine_id].stock_quantity
                           + movement.quantity
                       d1 == SetStock(d, movement.medicine_id, newStockQuantity, now)
                       d2 == InsertStockMovement(d1, movement.medicine_id, "masuk",
                                                 movement.quantity, id, NotesCancel)
                   IN ReverseStockMovements(d2, id, stockMovements, i + 1, now)
         ELSE ReverseStockMovements(d, id, stockMovements, i + 1, now)

\* reactivation branch: every transaction_medicines row of the transaction is
\* checked against the current stock and debited again
RECURSIVE RedeductStock(_, _, _, _, _)
RedeductStock(d, id, transactionMedicines, i, now) ==
    IF i > Len(transactionMedicines) THEN Ok(d)
    ELSE LET item == transactionMedicines[i] IN
         IF item.medicine_id \notin DOMAIN d.medicines
         THEN Throw("medicine_not_found", i, d)
         ELSE IF d.medicines[item.medicine_id].stock_quantity < item.quantity
              THEN Throw("insufficient_stock", i, d)
         ELSE LET newStockQuantity ==
                      d.medicines[item.medicine_id].stock_quantity - item.quantity
                  d1 == SetStock(d, item.medicine_id, newStockQuantity, now)
                  d2 == InsertStockMovement(d1, item.medicine_id, "keluar",
                                            item.quantity, id, NotesReactivate)
              IN RedeductStock(d2, id, transactionMedicines, i + 1, now)

\* (variant: the WHERE reference_id = id is missing)
MovementsOfAnyReference(d, id) == d.stock_movements

MovementsOfReference(d, id) ==
    SelectSeq(d.stock_movements, LAMBDA m : m.reference_id = id)

MedicinesOfTransaction(d, id) ==
    SelectSeq(d.transaction_medicines, LAMBDA r : r.transaction_id = id)

\* the guards of the two stock branches
\* (variant: the current status is not looked at)
IsCancellationWhateverCurrent(current, paymentStatus) ==
    paymentStatus = "cancelled"

IsCancellation(current, paymentStatus) ==
    paymentStatus = "cancelled" /\ current # "cancelled"

\* (variant: every change to a status other than 'cancelled' deducts again)
IsReactivationOnAnyChange(current, paymentStatus) ==
    current # paymentStatus /\ paymentStatus # "cancelled"

IsReactivation(current, paymentStatus) ==
    current = "cancelled" /\ paymentStatus # "cancelled"

\* the final UPDATE of payment_status and updated_at
SetPaymentStatus(d, id, paymentStatus, now) ==
    [d EXCEPT !.transactions[id].payment_status = paymentStatus,
              !.transactions[id].updated_at = now]

\* the callback handed to db.transaction
updateTransactionStatusBody(d, id, paymentStatus, now) ==
    IF id \notin DOMAIN d.transactions THEN Throw("transaction_not_found", 0, d)
    ELSE LET currentTransaction == d.transactions[id]
             reversed ==
                 IF IsCancellation(currentTransaction.payment_status, paymentStatus)
                 THEN ReverseStockMovements(d, id, MovementsOfReference(d, id), 1, now)
                 ELSE Ok(d)
             rededucted ==
                 IF reversed.err # "ok" THEN reversed
                 ELSE IF IsReactivation(currentTransaction.payment_status,
                                        paymentStatus)
                      THEN RedeductStock(reversed.db, id,
                                         MedicinesOfTransaction(reversed.db, id), 1, now)
                      ELSE reversed
         IN IF rededucted.err # "ok" THEN rededucted
            ELSE Ok(SetPaymentStatus(rededucted.db, id, paymentStatus, now))

\* (variant: the statements run outside db.transaction)
updateTransactionStatusCallUnwrapped(d, id, paymentStatus, now) ==
    updateTransactionStatusBody(d, id, paymentStatus, now)

updateTransactionStatusCall(d, id, paymentStatus, now) ==
    Transact(d, updateTransactionStatusBody(d, id, paymentStatus, now))

-----------------------------------------------------------------------------
(* createStockMovement and adjustStock *)

\* (variant: an outgoing movement must leave at least one unit)
createStockMovementBodyKeepingOne(d, input, now) ==
    IF input.medicine_id \notin DOMAIN d.medicines THEN Throw("medicine_not_found", 0, d)
    ELSE LET currentMedicine == d.medicines[input.medicine_id]
             newStockQuantity ==
                 IF input.movement_type = "masuk"
                 THEN currentMedicine.stock_quantity + input.quantity
                 ELSE currentMedicine.stock_quantity - input.quantity
         IN IF input.movement_type # "masuk" /\ newStockQuantity <= 0
            THEN Throw("insufficient_stock", 0, d)
            ELSE Ok(InsertStockMovement(
                        SetStock(d, input.medicine_id, newStockQuantity, now),
                        input.medicine_id, input.movement_type, input.quantity,
                        input.reference_id, NotesInput))

createStockMovementBody(d, input, now) ==
    IF input.medicine_id \notin DOMAIN d.medicines THEN Throw("medicine_not_found", 0, d)
    ELSE LET currentMedicine == d.medicines[input.medicine_id]
             newStockQuantity ==
                 IF input.movement_type = "masuk"
                 THEN currentMedicine.stock_quantity + input.quantity
                 ELSE currentMedicine.stock_quantity - input.quantity
         IN IF input.movement_type # "masuk" /\ newStockQuantity < 0
            THEN Throw("insufficient_stock", 0, d)
            ELSE Ok(InsertStockMovement(
                        SetStock(d, input.medicine_id, newStockQuantity, now),
                        input.medicine_id, input.movement_type, input.quantity,
                        input.reference_id, NotesInput))

createStockMovementCall(d, input, now) ==
    Transact(d, createStockMovementBody(d, input, now))

\* Math.abs left out: the signed difference
Signed(n) == n

Abs(n) == IF n < 0 THEN -n ELSE n

\* adjustStock without its check of a negative newQuantity
adjustStockBodyUnchecked(d, medicineId, newQuantity, now) ==
    IF medicineId \notin DOMAIN d.medicines THEN Throw("medicine_not_found", 0, d)
    ELSE LET currentStock == d.medicines[medicineId].stock_quantity
             difference == newQuantity - currentStock
         IN IF difference # 0
            THEN Ok(InsertStockMovement(
                        SetStock(d, medicineId, newQuantity, now),
                        medicineId,
                        IF difference > 0 THEN "masuk" ELSE "keluar",
                        Abs(difference), NULL, NotesAdjust))
            ELSE Ok(d)

adjustStockBody(d, medicineId, newQuantity, now) ==
    IF medicineId \notin DOMAIN d.medicines THEN Throw("medicine_not_found", 0, d)
    ELSE LET currentStock == d.medicines[medicineId].stock_quantity
             difference == newQuantity - currentStock
         IN IF newQuantity < 0 THEN Throw("negative_quantity", 0, d)
            ELSE IF difference # 0
                 THEN Ok(InsertStockMovement(
                             SetStock(d, medicineId, newQuantity, now),
                             medicineId,
                             IF difference > 0 THEN "masuk" ELSE "keluar",
                             Abs(difference), NULL, NotesAdjust))
                 ELSE Ok(d)

adjustStockCall(d, medicineId, newQuantity, now) ==
    Transact(d, adjustStockBody(d, medicineId, newQuantity, now))

-----------------------------------------------------------------------------
(* updateMedicine, updateService, addTransactionNotes and the delete        *)
(* handlers.  None of them opens db.transaction: every statement commits   *)
(* on its own.                                                             *)

\* an optional field of an input: <<>> when undefined, <<v>> when given
Optional(S) == {<<>>} \cup {<<v>> : v \in S}

\* a handler that returns a boolean
Return(value, d) == [err |-> "ok", line |-> 0, db |-> d, value |-> value]

NotesUpdate == "Stock adjustment via medicine update"

\* A handler whose last statement inserts a stock movement, when the store
\* fails that INSERT: the statement throws and the writes of the statements
\* before it are what the callback leaves.
InsertFailed(d, outcome) ==
    IF outcome.err = "ok" /\ outcome.db.stock_movements # d.stock_movements
    THEN Throw("store_error", 0,
               [outcome.db EXCEPT !.stock_movements = d.stock_movements,
                                  !.nextId = d.nextId])
    ELSE outcome

updateMedicineBody(d, input, now) ==
    IF input.id \notin DOMAIN d.medicines THEN Throw("medicine_not_found", 0, d)
    ELSE LET currentStock == d.medicines[input.id].stock_quantity
             updated ==
                 [d EXCEPT !.medicines[input.id] =
                     [@ EXCEPT !.updated_at = now,
                               !.price_per_unit =
                                   IF input.price_per_unit # <<>>
                                   THEN input.price_per_unit[1] ELSE @,
                               !.stock_quantity =
                                   IF input.stock_quantity # <<>>
                                   THEN input.stock_quantity[1] ELSE @]]
         IN IF input.stock_quantity # <<>> /\ input.stock_quantity[1] # currentStock
            THEN LET stockDifference == input.stock_quantity[1] - currentStock
                 IN Ok(InsertStockMovement(
                           updated, input.id,
                           IF stockDifference > 0 THEN "masuk" ELSE "keluar",
                           Abs(stockDifference), NULL, NotesUpdate))
            ELSE Ok(updated)

\* no db.transaction encloses the statements
updateMedicineCall(d, input, now) == updateMedicineBody(d, input, now)

\* updateService carrying a new price into the lines already sold
updateServiceCallRepricing(d, input, now) ==
    IF input.id \notin DOMAIN d.services THEN Throw("service_not_found", 0, d)
    ELSE LET price == IF input.price # <<>> THEN input.price[1]
                      ELSE d.services[input.id].price
         IN Ok([d EXCEPT
                  !.services[input.id] =
                      [@ EXCEPT !.updated_at = now,
                                !.price = price,
                                !.is_active = IF input.is_active # <<>>
                                              THEN input.is_active[1] ELSE @],
                  !.transaction_services =
                      [i \in DOMAIN d.transaction_services |->
                          LET line == d.transaction_services[i]
                          IN IF line.service_id = input.id
                             THEN [line EXCEPT
                                     !.price_per_unit = price,
                                     !.total_price = price * line.quantity]
                             ELSE line]])

updateServiceCall(d, input, now) ==
    IF input.id \notin DOMAIN d.services THEN Throw("service_not_found", 0, d)
    ELSE Ok([d EXCEPT !.services[input.id] =
                [@ EXCEPT !.updated_at = now,
                          !.price = IF input.price # <<>> THEN input.price[1] ELSE @,
                          !.is_active = IF input.is_active # <<>>
                                        THEN input.is_active[1] ELSE @]])

\* addTransactionNotes without its check that the UPDATE returned a row
addTransactionNotesCallUnchecked(d, id, notes, now) ==
    IF id \notin DOMAIN d.transactions THEN Ok(d)
    ELSE Ok([d EXCEPT !.transactions[id].notes = notes,
                      !.transactions[id].updated_at = now])

addTransactionNotesCall(d, id, notes, now) ==
    IF id \notin DOMAIN d.transactions THEN Throw("transaction_not_found", 0, d)
    ELSE Ok([d EXCEPT !.transactions[id].notes = notes,
                      !.transactions[id].updated_at = now])

\* db.delete(table).where(...) on a table kept as a sequence of rows
DeleteWhere(rows, column, value) == SelectSeq(rows, LAMBDA r : r[column] # value)

\* db.delete(table).where(eq(table.id, id)) on a table keyed by id
DeleteId(table, id) == [i \in DOMAIN table \ {id} |-> table[i]]

Exists(rows, column, value) == \E i \in 1..Len(rows) : rows[i][column] = value

\* deleteMedicine without its check of transaction_medicines
deleteMedicineCallUnguarded(d, id) ==
    IF id \notin DOMAIN d.medicines THEN Return(FALSE, d)
    ELSE Return(TRUE,
                [d EXCEPT !.stock_movements =
                              DeleteWhere(@, "medicine_id", id),
                          !.medicines = DeleteId(@, id)])

deleteMedicineCall(d, id) ==
    IF id \notin DOMAIN d.medicines THEN Return(FALSE, d)
    ELSE IF Exists(d.transaction_medicines, "medicine_id", id)
         THEN Return(FALSE, d)
    ELSE Return(TRUE,
                [d EXCEPT !.stock_movements =
                              DeleteWhere(@, "medicine_id", id),
                          !.medicines = DeleteId(@, id)])

\* deleteService without its check of transaction_services
deleteServiceCallUnguarded(d, id, now) ==
    IF id \notin DOMAIN d.services THEN Return(FALSE, d)
    ELSE Return(TRUE, [d EXCEPT !.services = DeleteId(@, id)])

deleteServiceCall(d, id, now) ==
    IF id \notin DOMAIN d.services THEN Return(FALSE, d)
    ELSE IF Exists(d.transaction_services, "service_id", id)
         THEN Return(TRUE, [d EXCEPT !.services[id].is_active = FALSE,
                                     !.services[id].updated_at = now])
    ELSE Return(TRUE, [d EXCEPT !.services = DeleteId(@, id)])

\* deleteTransaction without its refusal of a paid transaction
deleteTransactionCallAnyStatus(d, id) ==
    IF id \notin DOMAIN d.transactions THEN Return(FALSE, d)
    ELSE Return(TRUE,
                [d EXCEPT !.transaction_services =
                              DeleteWhere(@, "transaction_id", id),
                          !.transaction_medicines =
                              DeleteWhere(@, "transaction_id", id),
                          !.stock_movements =
                              DeleteWhere(@, "reference_id", id),
                          !.patient_visits =
                              [i \in DOMAIN d.patient_visits |->
                                 IF d.patient_visits[i].transaction_id = id
                                 THEN [d.patient_visits[i]
                                          EXCEPT !.transaction_id = NULL]
                                 ELSE d.patient_visits[i]],
                          !.transactions = DeleteId(@, id)])

deleteTransactionCall(d, id) ==
    IF id \notin DOMAIN d.transactions THEN Return(FALSE, d)
    ELSE IF d.transactions[id].payment_status = "paid" THEN Return(FALSE, d)
    ELSE Return(TRUE,
                [d EXCEPT !.transaction_services =
                              DeleteWhere(@, "transaction_id", id),
                          !.transaction_medicines =
                              DeleteWhere(@, "transaction_id", id),
                          !.stock_movements =
                              DeleteWhere(@, "reference_id", id),
                          !.patient_visits =
                              [i \in DOMAIN @ |->
                                 IF @[i].transaction_id = id
                                 THEN [@[i] EXCEPT !.transaction_id = NULL]
                                 ELSE @[i]],
                          !.transactions = DeleteId(@, id)])

\* deletePatient without its check of the patient's visits
deletePatientCallIgnoringVisits(d, id) ==
    IF id \notin d.patients THEN Return(FALSE, d)
    ELSE IF \E t \in DOMAIN d.transactions : d.transactions[t].patient_id = id
         THEN Return(FALSE, d)
    ELSE Return(TRUE, [d EXCEPT !.patients = @ \ {id}])

deletePatientCall(d, id) ==
    IF id \notin d.patients THEN Return(FALSE, d)
    ELSE IF \E t \in DOMAIN d.transactions : d.transactions[t].patient_id = id
         THEN Return(FALSE, d)
    ELSE IF Exists(d.patient_visits, "patient_id", id)
         THEN Return(FALSE, d)
    ELSE Return(TRUE, [d EXCEPT !.patients = @ \ {id}])

\* if (input.transaction_id): null and 0 are falsy, every other number is truthy
Truthy(optional) == optional # <<>> /\ optional[1] # 0

\* the column value of a nullable input
Nullable(optional) == IF optional = <<>> THEN NULL ELSE optional[1]

createPatientVisitCall(d, input) ==
    IF input.patient_id \notin d.patients THEN Throw("patient_not_found", 0, d)
    ELSE IF /\ Truthy(input.transaction_id)
            /\ input.transaction_id[1] \notin DOMAIN d.transactions
         THEN Throw("transaction_not_found", 0, d)
    ELSE Ok(InsertPatientVisit(d, input.patient_id,
                               Nullable(input.transaction_id), input.visit_date))

-----------------------------------------------------------------------------
(* Settings: updateSetting and initializeDefaultSettings.  settings.key is *)
(* declared unique, so an INSERT that would repeat a key is refused by the *)
(* store, whole: a multi-row INSERT is one statement.                      *)

DefaultSettings ==
    <<[key |-> "clinic_name", value |-> "Rumah Khitan Super Modern Pak Nopi"],
      [key |-> "address", value |-> ""],
      [key |-> "phone", value |-> ""],
      [key |-> "logo_url", value |-> ""],
      [key |-> "receipt_footer", value |-> "Terima kasih atas kepercayaan Anda"],
      [key |-> "low_stock_threshold_days", value |-> "7"],
      [key |-> "expiry_warning_days", value |-> "30"]>>

SettingRow(setting, now) ==
    [key |-> setting.key, value |-> setting.value, updated_at |-> now]

KeysOf(rows) == {rows[i].key : i \in DOMAIN rows}

\* db.insert(settingsTable).values(rows) under the unique constraint on key
InsertSettings(d, rows) ==
    IF \/ KeysOf(rows) \cap KeysOf(d.settings) # {}
       \/ Cardinality(KeysOf(rows)) # Len(rows)
    THEN Throw("unique_violation", 0, d)
    ELSE Ok([d EXCEPT !.settings = @ \o rows])

\* db.update(settingsTable).set({value, updated_at}).where(eq(key, input.key))
UpdateSettingRows(d, input, now) ==
    [d EXCEPT !.settings =
        [i \in DOMAIN d.settings |->
            IF d.settings[i].key = input.key
            THEN [d.settings[i] EXCEPT !.value = input.value,
                                       !.updated_at = now]
            ELSE d.settings[i]]]

\* `read` is the table as getSettingByKey returned it, d the table the
\* statement that follows acts on
updateSettingStatements(read, d, input, now) ==
    IF input.key \in KeysOf(read.settings)
    THEN Ok(UpdateSettingRows(d, input, now))
    ELSE InsertSettings(d, <<SettingRow(input, now)>>)

updateSettingCall(d, input, now) == updateSettingStatements(d, d, input, now)

\* initializeDefaultSettings inserting each default key that is absent
initializeDefaultSettingsStatementsPerKey(read, d, now) ==
    InsertSettings(d, SelectSeq([i \in DOMAIN DefaultSettings |->
                                    SettingRow(DefaultSettings[i], now)],
                                LAMBDA r : r.key \notin KeysOf(d.settings)))

\* `read` is the table as getSettings returned it
initializeDefaultSettingsStatements(read, d, now) ==
    IF Len(read.settings) > 0 THEN Ok(d)
    ELSE InsertSettings(d, [i \in DOMAIN DefaultSettings |->
                               SettingRow(DefaultSettings[i], now)])

initializeDefaultSettingsCall(d, now) ==
    initializeDefaultSettingsStatements(d, d, now)

-----------------------------------------------------------------------------
(* The state machine: one action per request, each a whole handler call *)

Sessions == 1..MaxSessions

\* a session that has received no request
Idle == [pc |-> "idle", op |-> "none", request |-> <<>>, seen |-> <<>>,
         peers |-> {}, err |-> "none"]

\* The database before the first request: the master data the handlers' tests
\* seed (a patient, services, medicines; here with small prices and stocks,
\* and a second, inactive service) and no transaction.
Init ==
    /\ patients = PatientIds
    /\ services = [i \in ServiceIds |->
                     [price |-> 5000 * i, is_active |-> (i = 1), updated_at |-> 0]]
    /\ medicines = [i \in MedicineIds |->
                      [price_per_unit |-> 150 * i, stock_quantity |-> InitialStock[i],
                       updated_at |-> 0]]
    /\ transactions = <<>>
    /\ transaction_services = <<>>
    /\ transaction_medicines = <<>>
    /\ stock_movements = <<>>
    /\ patient_visits = <<>>
    /\ settings = <<>>
    /\ nextId = [transactions |-> 1, stock_movements |-> 1]
    /\ clock = 0
    /\ stockEdits = 0
    /\ adminEdits = 0
    /\ last = [op |-> "none", err |-> "ok", line |-> 0, request |-> <<>>,
               returned |-> NULL]
    /\ sessions = [s \in Sessions |-> Idle]

Commit(d) ==
    /\ patients' = d.patients
    /\ services' = d.services
    /\ medicines' = d.medicines
    /\ transactions' = d.transactions
    /\ transaction_services' = d.transaction_services
    /\ transaction_medicines' = d.transaction_medicines
    /\ stock_movements' = d.stock_movements
    /\ patient_visits' = d.patient_visits
    /\ settings' = d.settings
    /\ nextId' = d.nextId

\* What a request leaves in `last`: the request, whether it was served or
\* rejected (err), and the line item the error was raised at.
Respond(op, request, outcome) ==
    /\ Commit(outcome.db)
    /\ last' = [op |-> op, err |-> outcome.err, line |-> outcome.line,
                request |-> request, returned |-> NULL]
    /\ clock' = clock + 1
    /\ UNCHANGED <<adminEdits, sessions>>

\* A rejected createTransaction is recorded without its line items.
Logged(input, outcome) ==
    IF outcome.err = "ok" THEN input ELSE [patient_id |-> input.patient_id]

createTransaction ==
    /\ clock < MaxOps
    /\ nextId.transactions \in TransactionIds
    /\ UNCHANGED stockEdits
    /\ \E input \in CreateTransactionInputs :
         LET outcome == createTransactionCall(Db, input, clock + 1) IN
         Respond("createTransaction", Logged(input, outcome), outcome)

\* `was` is the payment_status the handler read (currentTransaction)
updateTransactionStatus ==
    /\ clock < MaxOps
    /\ UNCHANGED stockEdits
    /\ \E id \in TransactionIds \cup {UnknownId}, paymentStatus \in PaymentStatuses :
         Respond("updateTransactionStatus",
                 [id |-> id, paymentStatus |-> paymentStatus,
                  was |-> IF id \in DOMAIN transactions
                          THEN transactions[id].payment_status ELSE "none"],
                 updateTransactionStatusCall(Db, id, paymentStatus, clock + 1))

createStockMovement ==
    /\ clock < MaxOps
    /\ stockEdits < MaxStockEdits
    /\ stockEdits' = stockEdits + 1
    /\ \E input \in CreateStockMovementInputs :
         Respond("createStockMovement", input,
                 createStockMovementCall(Db, input, clock + 1))

adjustStock ==
    /\ clock < MaxOps
    /\ stockEdits < MaxStockEdits
    /\ stockEdits' = stockEdits + 1
    /\ \E medicineId \in MedicineIds \cup {UnknownId}, newQuantity \in StockTargets :
         Respond("adjustStock",
                 [medicineId |-> medicineId, newQuantity |-> newQuantity],
                 adjustStockCall(Db, medicineId, newQuantity, clock + 1))

Next ==
    \/ createTransaction
    \/ updateTransactionStatus
    \/ createStockMovement
    \/ adjustStock

Spec == Init /\ [][Next]_vars

-----------------------------------------------------------------------------
(* Interleaved requests.  Every handler opens db.transaction without an    *)
(* isolation level and locks no row it reads, so the store runs it at its  *)
(* default level, READ COMMITTED: a SELECT returns the rows committed when *)
(* it runs, an UPDATE holds its row until the commit, and an UPDATE that   *)
(* waited for a row acts on the row as the other request committed it.     *)
(* A request is therefore two steps: its reads, and its writes with the    *)
(* commit.  The requests of this specification name one medicine, so a     *)
(* request holds one row lock at most and no order of locks matters.       *)

RaceMedicines == {1}
RaceTransactionIds == {1, 2}            \* the ids createTransaction may be issued
RaceUpdatedIds == {1}                   \* the ids updateTransactionStatus names
RacePaymentStatuses == {"paid", "cancelled"}

RaceCreateTransactionInputs ==
    {input \in CreateTransactionInputs :
        /\ input.patient_id \in PatientIds
        /\ input.payment_status \in RacePaymentStatuses
        /\ input.services = <<>>
        /\ Len(input.medicines) = 1
        /\ input.medicines[1].medicine_id \in RaceMedicines}

RaceCreateStockMovementInputs ==
    {input \in CreateStockMovementInputs :
        /\ input.medicine_id \in RaceMedicines
        /\ input.movement_type = "keluar"
        /\ input.reference_id = NULL}

\* the sessions between their reads and their commit
InFlight == {s \in Sessions : sessions[s].pc = "read"}

\* sessions receive the requests in the order of their numbers
MayReceive(s) ==
    /\ sessions[s].pc = "idle"
    /\ IF s = 1 THEN TRUE ELSE sessions[s - 1].pc # "idle"
    /\ Cardinality(InFlight) < MaxInFlight

\* the SELECTs of the request of session s return the committed rows
Receive(s, op, request) ==
    /\ sessions' = [sessions EXCEPT ![s] =
                       [pc |-> "read", op |-> op, request |-> request,
                        seen |-> Db, peers |-> InFlight, err |-> "none"]]
    /\ UNCHANGED <<tables, clock, stockEdits, adminEdits, last>>

\* the committed database d, with the rows a handler selected before its
\* first write as the handler read them
AsRead(seen, d, transactionIds, medicineIds) ==
    [d EXCEPT !.transactions =
                  [i \in DOMAIN @ |->
                     IF i \in transactionIds /\ i \in DOMAIN seen.transactions
                     THEN seen.transactions[i] ELSE @[i]],
              !.medicines =
                  [i \in DOMAIN @ |->
                     IF i \in medicineIds /\ i \in DOMAIN seen.medicines
                     THEN seen.medicines[i] ELSE @[i]]]

\* the medicines updateTransactionStatus selects in its stock branch
MedicinesRead(d, id, paymentStatus) ==
    IF id \notin DOMAIN d.transactions THEN {}
    ELSE IF IsCancellation(d.transactions[id].payment_status, paymentStatus)
         THEN {d.stock_movements[i].medicine_id :
                  i \in {j \in 1..Len(d.stock_movements) :
                            /\ d.stock_movements[j].reference_id = id
                            /\ d.stock_movements[j].movement_type = "keluar"}}
    ELSE IF IsReactivation(d.transactions[id].payment_status, paymentStatus)
         THEN {d.transaction_medicines[i].medicine_id :
                  i \in {j \in 1..Len(d.transaction_medicines) :
                            d.transaction_medicines[j].transaction_id = id}}
    ELSE {}

\* the writes of session s and its commit or rollback
Conclude(s, request, outcome) ==
    /\ Commit(outcome.db)
    /\ last' = [op |-> sessions[s].op, err |-> outcome.err, line |-> outcome.line,
                request |-> request, returned |-> NULL]
    /\ clock' = clock + 1
    /\ sessions' = [sessions EXCEPT ![s].pc = "done", ![s].err = outcome.err]
    /\ UNCHANGED <<stockEdits, adminEdits>>

Writing(s, op) == sessions[s].pc = "read" /\ sessions[s].op = op

createTransactionReads(s) ==
    /\ MayReceive(s)
    /\ Cardinality({t \in Sessions : sessions[t].op = "createTransaction"})
           < Cardinality(RaceTransactionIds)
    /\ \E input \in RaceCreateTransactionInputs :
          Receive(s, "createTransaction", input)

createTransactionWrites(s) ==
    /\ Writing(s, "createTransaction")
    /\ LET input == sessions[s].request
           outcome == Transact(Db, createTransactionStatements(
                                       sessions[s].seen, Db, input, clock + 1))
       IN Conclude(s, Logged(input, outcome), outcome)

updateTransactionStatusReads(s) ==
    /\ MayReceive(s)
    /\ \E id \in RaceUpdatedIds, paymentStatus \in RacePaymentStatuses :
          Receive(s, "updateTransactionStatus",
                  [id |-> id, paymentStatus |-> paymentStatus,
                   was |-> IF id \in DOMAIN transactions
                           THEN transactions[id].payment_status ELSE "none"])

updateTransactionStatusWrites(s) ==
    /\ Writing(s, "updateTransactionStatus")
    /\ LET request == sessions[s].request
           id == request.id
           seen == sessions[s].seen
           header == AsRead(seen, Db, {id}, {})
           read == AsRead(seen, Db, {id},
                          MedicinesRead(header, id, request.paymentStatus))
           outcome ==
               IF id \notin DOMAIN seen.transactions
               THEN Throw("transaction_not_found", 0, Db)
               ELSE Transact(Db, updateTransactionStatusBody(
                                     read, id, request.paymentStatus, clock + 1))
       IN Conclude(s, request, outcome)

createStockMovementReads(s) ==
    /\ MayReceive(s)
    /\ \E input \in RaceCreateStockMovementInputs :
          Receive(s, "createStockMovement", input)

createStockMovementWrites(s) ==
    /\ Writing(s, "createStockMovement")
    /\ LET input == sessions[s].request
           read == AsRead(sessions[s].seen, Db, {}, {input.medicine_id})
           outcome == Transact(Db, createStockMovementBody(read, input, clock + 1))
       IN Conclude(s, input, outcome)

NextRace ==
    \E s \in Sessions :
        \/ createTransactionReads(s)
        \/ createTransactionWrites(s)
        \/ updateTransactionStatusReads(s)
        \/ updateTransactionStatusWrites(s)
        \/ createStockMovementReads(s)
        \/ createStockMovementWrites(s)

SpecRace == Init /\ [][NextRace]_vars

-----------------------------------------------------------------------------
(* The whole RPC surface, one request after the other: the four ledger     *)
(* operations over small inputs, and the maintenance handlers.  A request  *)
(* that inserts a stock movement may meet a store that fails the INSERT.   *)

MaxAdminEdits == 2      \* maintenance requests per run

FullTransactionIds == {1, 2}
FullUpdatedIds == {1}
FullMedicines == {1}
FullStockTargets == {0, 2}
NoteTexts == {1}        \* the texts of addTransactionNotes, by number
NewPrices == {175}      \* the prices updateMedicine and updateService set

FullCreateTransactionInputs ==
    [patient_id : PatientIds,
     payment_status : PaymentStatuses,
     notes : {NULL},
     services : {<<[service_id |-> 1, quantity |-> 1]>>},
     medicines : SeqsUpTo([medicine_id : FullMedicines, quantity : Quantities], 1)]

FullCreateStockMovementInputs ==
    [medicine_id : FullMedicines, movement_type : MovementTypes,
     quantity : {1}, reference_id : {NULL}]

UpdateMedicineInputs ==
    [id : FullMedicines, price_per_unit : Optional(NewPrices),
     stock_quantity : Optional(FullStockTargets)]
    \cup [id : {UnknownId}, price_per_unit : {<<>>}, stock_quantity : {<<>>}]

UpdateServiceInputs ==
    [id : {1}, price : Optional(NewPrices), is_active : Optional(BOOLEAN)]
    \cup [id : {UnknownId}, price : {<<>>}, is_active : {<<>>}]

\* the outcomes of a callback: as the store completes every statement, and as
\* the store fails the INSERT of the stock movement
WithStoreFailure(d, outcome) == {outcome, InsertFailed(d, outcome)}

Reply(op, request, outcome, returned) ==
    /\ Commit(outcome.db)
    /\ last' = [op |-> op, err |-> outcome.err, line |-> outcome.line,
                request |-> request, returned |-> returned]
    /\ clock' = clock + 1
    /\ UNCHANGED sessions

StockEdit ==
    /\ clock < MaxOps
    /\ stockEdits < MaxStockEdits
    /\ stockEdits + adminEdits < MaxAdminEdits
    /\ stockEdits' = stockEdits + 1
    /\ UNCHANGED adminEdits

AdminEdit ==
    /\ clock < MaxOps
    /\ stockEdits + adminEdits < MaxAdminEdits
    /\ adminEdits' = adminEdits + 1
    /\ UNCHANGED stockEdits

createTransactionFull ==
    /\ clock < MaxOps
    /\ nextId.transactions \in FullTransactionIds
    /\ UNCHANGED <<stockEdits, adminEdits>>
    /\ \E input \in FullCreateTransactionInputs :
         Reply("createTransaction", input,
               createTransactionCall(Db, input, clock + 1), NULL)

updateTransactionStatusFull ==
    /\ clock < MaxOps
    /\ UNCHANGED <<stockEdits, adminEdits>>
    /\ \E id \in FullUpdatedIds, paymentStatus \in PaymentStatuses :
         Reply("updateTransactionStatus",
               [id |-> id, paymentStatus |-> paymentStatus,
                was |-> IF id \in DOMAIN transactions
                        THEN transactions[id].payment_status ELSE "none"],
               updateTransactionStatusCall(Db, id, paymentStatus, clock + 1), NULL)

createStockMovementFull ==
    /\ StockEdit
    /\ \E input \in FullCreateStockMovementInputs :
         \E outcome \in WithStoreFailure(
                            Db, createStockMovementBody(Db, input, clock + 1)) :
            Reply("createStockMovement", input, Transact(Db, outcome), NULL)

adjustStockFull ==
    /\ StockEdit
    /\ \E medicineId \in FullMedicines, newQuantity \in FullStockTargets :
         \E outcome \in WithStoreFailure(
                            Db, adjustStockBody(Db, medicineId, newQuantity,
                                                clock + 1)) :
            Reply("adjustStock",
                  [medicineId |-> medicineId, newQuantity |-> newQuantity],
                  Transact(Db, outcome), NULL)

updateMedicine ==
    /\ StockEdit
    /\ \E input \in UpdateMedicineInputs :
         \E outcome \in WithStoreFailure(
                            Db, updateMedicineCall(Db, input, clock + 1)) :
            Reply("updateMedicine", input, outcome, NULL)

updateService ==
    /\ AdminEdit
    /\ \E input \in UpdateServiceInputs :
         Reply("updateService", input, updateServiceCall(Db, input, clock + 1), NULL)

addTransactionNotes ==
    /\ AdminEdit
    /\ \E id \in FullUpdatedIds \cup {UnknownId}, notes \in NoteTexts :
         Reply("addTransactionNotes", [id |-> id, notes |-> notes],
               addTransactionNotesCall(Db, id, notes, clock + 1), NULL)

deleteMedicine ==
    /\ AdminEdit
    /\ \E id \in MedicineIds \cup {UnknownId} :
         LET outcome == deleteMedicineCall(Db, id) IN
         Reply("deleteMedicine", [id |-> id], outcome, outcome.value)

deleteService ==
    /\ AdminEdit
    /\ \E id \in ServiceIds \cup {UnknownId} :
         LET outcome == deleteServiceCall(Db, id, clock + 1) IN
         Reply("deleteService", [id |-> id], outcome, outcome.value)

deleteTransaction ==
    /\ AdminEdit
    /\ \E id \in FullUpdatedIds \cup {UnknownId} :
         LET outcome == deleteTransactionCall(Db, id) IN
         Reply("deleteTransaction", [id |-> id], outcome, outcome.value)

NextFull ==
    \/ createTransactionFull
    \/ updateTransactionStatusFull
    \/ createStockMovementFull
    \/ adjustStockFull
    \/ updateMedicine
    \/ updateService
    \/ addTransactionNotes
    \/ deleteMedicine
    \/ deleteService
    \/ deleteTransaction

SpecFull == Init /\ [][NextFull]_vars

-----------------------------------------------------------------------------
(* Patients and their visits: createTransaction, createPatientVisit,       *)
(* deleteTransaction and deletePatient over two patients.  The store may   *)
(* fail the INSERT of the visit that ends createTransaction's callback.    *)

CarePatientIds == {1, 2}
CareTransactionIds == {1, 2}
CareMedicines == {1}
VisitDates == {0}

CareCreateTransactionInputs ==
    [patient_id : CarePatientIds \cup {UnknownId},
     payment_status : {"pending", "paid"},
     notes : {NULL},
     services : {<<[service_id |-> 1, quantity |-> 1]>>},
     medicines : SeqsUpTo([medicine_id : CareMedicines, quantity : Quantities], 1)]

\* transaction_id is z.number().nullable(): null, 0, the id of a transaction
\* or an id no transaction has
CreatePatientVisitInputs ==
    [patient_id : CarePatientIds \cup {UnknownId},
     transaction_id : Optional({0} \cup CareTransactionIds \cup {UnknownId}),
     visit_date : VisitDates]

\* createTransaction's callback when the store fails its last statement, the
\* INSERT of the patient visit: the statement throws inside the callback
VisitInsertFailed(d, outcome) ==
    IF outcome.err = "ok"
    THEN Throw("store_error", 0,
               [outcome.db EXCEPT !.patient_visits = d.patient_visits])
    ELSE outcome

InitCare ==
    /\ patients = CarePatientIds
    /\ services = [i \in ServiceIds |->
                     [price |-> 5000 * i, is_active |-> (i = 1), updated_at |-> 0]]
    /\ medicines = [i \in MedicineIds |->
                      [price_per_unit |-> 150 * i, stock_quantity |-> InitialStock[i],
                       updated_at |-> 0]]
    /\ transactions = <<>>
    /\ transaction_services = <<>>
    /\ transaction_medicines = <<>>
    /\ stock_movements = <<>>
    /\ patient_visits = <<>>
    /\ settings = <<>>
    /\ nextId = [transactions |-> 1, stock_movements |-> 1]
    /\ clock = 0
    /\ stockEdits = 0
    /\ adminEdits = 0
    /\ last = [op |-> "none", err |-> "ok", line |-> 0, request |-> <<>>,
               returned |-> NULL]
    /\ sessions = [s \in Sessions |-> Idle]

CareRequest ==
    /\ clock < MaxOps
    /\ UNCHANGED <<stockEdits, adminEdits>>

createTransactionCare ==
    /\ CareRequest
    /\ nextId.transactions \in CareTransactionIds
    /\ \E input \in CareCreateTransactionInputs :
         LET body == createTransactionBody(Db, input, clock + 1) IN
         \E outcome \in {body, VisitInsertFailed(Db, body)} :
            Reply("createTransaction", input, Transact(Db, outcome), NULL)

createPatientVisit ==
    /\ CareRequest
    /\ \E input \in CreatePatientVisitInputs :
         Reply("createPatientVisit", input, createPatientVisitCall(Db, input), NULL)

deleteTransactionCare ==
    /\ CareRequest
    /\ \E id \in CareTransactionIds \cup {UnknownId} :
         LET outcome == deleteTransactionCall(Db, id) IN
         Reply("deleteTransaction", [id |-> id], outcome, outcome.value)

deletePatient ==
    /\ CareRequest
    /\ \E id \in CarePatientIds \cup {UnknownId} :
         LET outcome == deletePatientCall(Db, id) IN
         Reply("deletePatient", [id |-> id], outcome, outcome.value)

NextCare ==
    \/ createTransactionCare
    \/ createPatientVisit
    \/ deleteTransactionCare
    \/ deletePatient

SpecCare == InitCare /\ [][NextCare]_vars

-----------------------------------------------------------------------------
(* The settings procedures, one request after the other, from an empty     *)
(* settings table.                                                         *)

SettingKeys == {"clinic_name", "phone", "theme"}    \* "theme" is no default key
SettingValues == {"A", "B"}

UpdateSettingsInputs == [key : SettingKeys, value : SettingValues]

SettingsRequest ==
    /\ clock < MaxOps
    /\ UNCHANGED <<stockEdits, adminEdits>>

initializeDefaultSettings ==
    /\ SettingsRequest
    /\ Reply("initializeDefaultSettings", <<>>,
             initializeDefaultSettingsCall(Db, clock + 1), NULL)

updateSetting ==
    /\ SettingsRequest
    /\ \E input \in UpdateSettingsInputs :
          Reply("updateSetting", input, updateSettingCall(Db, input, clock + 1), NULL)

NextSettings ==
    \/ initializeDefaultSettings
    \/ updateSetting

SpecSettings == Init /\ [][NextSettings]_vars

-----------------------------------------------------------------------------
(* The settings procedures called concurrently: a call is its SELECT, and  *)
(* then, as a second step, the statement it issues on what it selected.    *)

RaceSettingKeys == {"clinic_name", "theme"}
RaceSettingValues == {"A"}

initializeDefaultSettingsReads(s) ==
    /\ MayReceive(s)
    /\ Receive(s, "initializeDefaultSettings", <<>>)

initializeDefaultSettingsWrites(s) ==
    /\ Writing(s, "initializeDefaultSettings")
    /\ Conclude(s, <<>>,
                initializeDefaultSettingsStatements(sessions[s].seen, Db, clock + 1))

updateSettingReads(s) ==
    /\ MayReceive(s)
    /\ \E input \in [key : RaceSettingKeys, value : RaceSettingValues] :
          Receive(s, "updateSetting", input)

updateSettingWrites(s) ==
    /\ Writing(s, "updateSetting")
    /\ Conclude(s, sessions[s].request,
                updateSettingStatements(sessions[s].seen, Db,
                                        sessions[s].request, clock + 1))

NextSettingsRace ==
    \E s \in Sessions :
        \/ initializeDefaultSettingsReads(s)
        \/ initializeDefaultSettingsWrites(s)
        \/ updateSettingReads(s)
        \/ updateSettingWrites(s)

SpecSettingsRace == Init /\ [][NextSettingsRace]_vars

-----------------------------------------------------------------------------
(* Vocabulary of the properties *)

Stock(m) == medicines[m].stock_quantity

QuantityOf(rows) == SumSeq([i \in 1..Len(rows) |-> rows[i].quantity])

\* the quantity the line items of transaction id hold of medicine m
LineQuantity(id, m) ==
    QuantityOf(SelectSeq(transaction_medicines,
                         LAMBDA r : r.transaction_id = id /\ r.medicine_id = m))

\* the quantity of the movements of one type that carry reference_id = id
MovedQuantity(id, m, type) ==
    QuantityOf(SelectSeq(stock_movements,
                         LAMBDA r : /\ r.reference_id = id
                                    /\ r.medicine_id = m
                                    /\ r.movement_type = type))

NetRemoved(id, m) == MovedQuantity(id, m, "keluar") - MovedQuantity(id, m, "masuk")

\* no createStockMovement request has used id as its reference_id
OnlyOwnMovements(id) ==
    \A i \in 1..Len(stock_movements) :
        stock_movements[i].reference_id = id => stock_movements[i].notes # NotesInput

\* the quantity the lines of a request ask of medicine m
RequestedQuantity(lines, m) ==
    QuantityOf(SelectSeq(lines, LAMBDA l : l.medicine_id = m))

ServedBy(op) == last.op = op /\ last.err = "ok"
RejectedBy(op) == last.op = op /\ last.err # "ok"

-----------------------------------------------------------------------------
(* C1: after any sequence of createTransaction, updateTransactionStatus,   *)
(* createStockMovement and adjustStock requests, served or rejected, every *)
(* medicine's stock_quantity is at least 0.                                *)
StockNeverNegative ==
    \A m \in DOMAIN medicines : Stock(m) >= 0

(* C2: status transitions never double-count.  For every transaction whose *)
(* id no other request used as a reference_id, the net quantity its        *)
(* movements removed from each medicine ('keluar' minus 'masuk') is the     *)
(* line-item quantity while it is pending or paid and 0 while it is        *)
(* cancelled, whatever its initial status and however often it was         *)
(* cancelled and reactivated.                                              *)
NoDoubleCounting ==
    \A id \in DOMAIN transactions :
        OnlyOwnMovements(id) =>
            \A m \in DOMAIN medicines :
                NetRemoved(id, m) =
                    IF transactions[id].payment_status = "cancelled"
                    THEN 0 ELSE LineQuantity(id, m)

(* C3: reversibility.  When a transaction holds its debit (its movements    *)
(* have removed exactly the line-item quantity of every medicine), a       *)
(* served updateTransactionStatus(id, 'cancelled') gives every medicine    *)
(* back exactly that quantity, its stock before the debit; and when the    *)
(* debit is undone (net 0), a served updateTransactionStatus(id, 'paid')   *)
(* takes exactly that quantity again.                                      *)
HoldsDebit(id) ==
    \A m \in DOMAIN medicines : NetRemoved(id, m) = LineQuantity(id, m)

DebitUndone(id) ==
    \A m \in DOMAIN medicines : NetRemoved(id, m) = 0

Reversibility ==
    [][ (/\ last'.op = "updateTransactionStatus"
         /\ last'.err = "ok"
         /\ OnlyOwnMovements(last'.request.id))
        => LET id == last'.request.id
               was == last'.request.was
               to == last'.request.paymentStatus
           IN /\ (was # "cancelled" /\ to = "cancelled" /\ HoldsDebit(id))
                    => \A m \in DOMAIN medicines :
                          medicines'[m].stock_quantity = Stock(m) + LineQuantity(id, m)
              /\ (was = "cancelled" /\ to = "paid" /\ DebitUndone(id))
                    => \A m \in DOMAIN medicines :
                          medicines'[m].stock_quantity = Stock(m) - LineQuantity(id, m)
      ]_vars

(* C4: idempotence.  A served updateTransactionStatus(id, s) with s the     *)
(* transaction's current payment_status changes no medicine and inserts no *)
(* stock movement; the only column written is the transaction's updated_at.*)
SameStatusTouchesOnlyUpdatedAt ==
    [][ (/\ last'.op = "updateTransactionStatus"
         /\ last'.err = "ok"
         /\ last'.request.was = last'.request.paymentStatus)
        => /\ medicines' = medicines
           /\ stock_movements' = stock_movements
           /\ transactions' =
                  [transactions EXCEPT ![last'.request.id].updated_at = clock']
           /\ UNCHANGED <<patients, services, transaction_services,
                          transaction_medicines, patient_visits, nextId>>
      ]_vars

\* a same-status request was served on a transaction that holds medicine lines
SameStatusServed ==
    /\ ServedBy("updateTransactionStatus")
    /\ last.request.was = last.request.paymentStatus
    /\ \E m \in DOMAIN medicines : LineQuantity(last.request.id, m) > 0

(* C5: atomicity of createTransaction.  Whenever it is rejected (unknown    *)
(* patient, unknown or inactive service, unknown medicine, insufficient    *)
(* stock on any line, earlier lines valid or not) no row is added to any   *)
(* table and no medicine changes.                                          *)
RejectedCreateChangesNothing ==
    [][ (last'.op = "createTransaction" /\ last'.err # "ok")
        => UNCHANGED tables
      ]_vars

\* createTransaction was rejected at its second medicine line, the first valid
RejectedAtSecondLine ==
    /\ RejectedBy("createTransaction")
    /\ last.err \in {"insufficient_stock", "medicine_not_found"}
    /\ last.line = 2

(* C6: two requests that debit the same medicine and run concurrently (the *)
(* second read the stock before the first committed) cannot both pass the  *)
(* sufficiency check and overdraw: no stock_quantity is below zero, and    *)
(* when the quantities of the two together exceed the stock both read, at  *)
(* most one of them is served.                                             *)
Served(s) == sessions[s].pc = "done" /\ sessions[s].err = "ok"

SeenStock(s, m) == sessions[s].seen.medicines[m].stock_quantity

\* the quantity the request of session s asks to take from medicine m
DebitOf(s, m) ==
    LET request == sessions[s].request
        seen == sessions[s].seen
    IN CASE sessions[s].op = "createTransaction" ->
                RequestedQuantity(request.medicines, m)
         [] sessions[s].op = "createStockMovement" ->
                IF request.medicine_id = m /\ request.movement_type = "keluar"
                THEN request.quantity ELSE 0
         [] sessions[s].op = "updateTransactionStatus" ->
                IF /\ request.id \in DOMAIN seen.transactions
                   /\ IsReactivation(seen.transactions[request.id].payment_status,
                                     request.paymentStatus)
                THEN LineQuantity(request.id, m) ELSE 0
         [] OTHER -> 0

RacingDebitsSerialized ==
    \A m \in DOMAIN medicines :
        /\ Stock(m) >= 0
        /\ \A s, t \in Sessions :
              (/\ s \in sessions[t].peers
               /\ SeenStock(s, m) = SeenStock(t, m)
               /\ DebitOf(s, m) > 0 /\ DebitOf(t, m) > 0
               /\ DebitOf(s, m) + DebitOf(t, m) > SeenStock(s, m))
              => ~(Served(s) /\ Served(t))

(* C7: the total_amount of every transaction is the sum of the total_price *)
(* of its transaction_services and transaction_medicines rows, and every   *)
(* row's total_price is its quantity times the price_per_unit it stores.   *)
RowsOf(rows, id) == SelectSeq(rows, LAMBDA r : r.transaction_id = id)

TotalPriceOf(rows) == SumSeq([i \in 1..Len(rows) |-> rows[i].total_price])

TotalIsSumOfLines ==
    /\ \A id \in DOMAIN transactions :
           transactions[id].total_amount =
               TotalPriceOf(RowsOf(transaction_services, id))
               + TotalPriceOf(RowsOf(transaction_medicines, id))
    /\ \A i \in 1..Len(transaction_services) :
           transaction_services[i].total_price =
               transaction_services[i].quantity * transaction_services[i].price_per_unit
    /\ \A i \in 1..Len(transaction_medicines) :
           transaction_medicines[i].total_price =
               transaction_medicines[i].quantity * transaction_medicines[i].price_per_unit

\* a sale of a service and of two medicine lines, one of quantity 2
SaleWithSeveralLines ==
    /\ ServedBy("createTransaction")
    /\ Len(last.request.services) = 1
    /\ Len(last.request.medicines) = 2
    /\ \E i \in 1..2 : last.request.medicines[i].quantity = 2

(* C8: a served createTransaction lowers the stock of each listed medicine  *)
(* by exactly the quantity of its lines, appends per medicine line one     *)
(* transaction_medicines row and one 'keluar' movement of that quantity    *)
(* with reference_id = the new id, appends one transaction_services row    *)
(* per service line, and leaves the medicines not listed unchanged.        *)
Appended(old, new) == SubSeq(new, Len(old) + 1, Len(new))

IsPrefix(old, new) == Len(old) <= Len(new) /\ SubSeq(new, 1, Len(old)) = old

SaleDebitsExactly ==
    [][ (last'.op = "createTransaction" /\ last'.err = "ok")
        => LET id == nextId.transactions
               input == last'.request
               tm == Appended(transaction_medicines, transaction_medicines')
               sm == Appended(stock_movements, stock_movements')
               ts == Appended(transaction_services, transaction_services')
           IN /\ id \in DOMAIN transactions' /\ id \notin DOMAIN transactions
              /\ \A m \in DOMAIN medicines :
                    /\ medicines'[m].stock_quantity =
                           Stock(m) - RequestedQuantity(input.medicines, m)
                    /\ RequestedQuantity(input.medicines, m) = 0
                           => medicines'[m] = medicines[m]
              /\ IsPrefix(transaction_medicines, transaction_medicines')
              /\ IsPrefix(stock_movements, stock_movements')
              /\ IsPrefix(transaction_services, transaction_services')
              /\ Len(tm) = Len(input.medicines)
              /\ Len(sm) = Len(input.medicines)
              /\ Len(ts) = Len(input.services)
              /\ \A i \in 1..Len(input.medicines) :
                    /\ tm[i].transaction_id = id
                    /\ tm[i].medicine_id = input.medicines[i].medicine_id
                    /\ tm[i].quantity = input.medicines[i].quantity
                    /\ sm[i].movement_type = "keluar"
                    /\ sm[i].reference_id = id
                    /\ sm[i].medicine_id = input.medicines[i].medicine_id
                    /\ sm[i].quantity = input.medicines[i].quantity
              /\ \A i \in 1..Len(input.services) :
                    /\ ts[i].transaction_id = id
                    /\ ts[i].service_id = input.services[i].service_id
                    /\ ts[i].quantity = input.services[i].quantity
      ]_vars

\* a sale of quantity 2 of medicine 1 alone was served: it has one movement
\* and medicine 2 keeps its stock
SaleOfTwoServed ==
    /\ ServedBy("createTransaction")
    /\ last.request.medicines = <<[medicine_id |-> 1, quantity |-> 2]>>
    /\ Len(last.request.services) = 1
    /\ Len(stock_movements) = 1
    /\ Stock(1) = InitialStock[1] - 2
    /\ Stock(2) = InitialStock[2]

(* C9: a served updateTransactionStatus to 'cancelled' of a transaction    *)
(* that is not cancelled appends, for each 'keluar' movement that carries  *)
(* reference_id = id, one 'masuk' movement of the same medicine, quantity  *)
(* and reference_id, and adds that quantity to the medicine's stock; the   *)
(* movements that existed are neither modified nor deleted.                *)
OutgoingOf(id) ==
    SelectSeq(stock_movements,
              LAMBDA r : r.reference_id = id /\ r.movement_type = "keluar")

CancelAppendsReversals ==
    [][ (/\ last'.op = "updateTransactionStatus"
         /\ last'.err = "ok"
         /\ last'.request.paymentStatus = "cancelled"
         /\ last'.request.was # "cancelled")
        => LET id == last'.request.id
               out == OutgoingOf(id)
               new == Appended(stock_movements, stock_movements')
           IN /\ IsPrefix(stock_movements, stock_movements')
              /\ Len(new) = Len(out)
              /\ \A i \in 1..Len(out) :
                    /\ new[i].movement_type = "masuk"
                    /\ new[i].medicine_id = out[i].medicine_id
                    /\ new[i].quantity = out[i].quantity
                    /\ new[i].reference_id = id
              /\ \A m \in DOMAIN medicines :
                    medicines'[m].stock_quantity =
                        Stock(m) + MovedQuantity(id, m, "keluar")
              /\ transactions'[id].payment_status = "cancelled"
      ]_vars

\* a one-medicine sale was created and then cancelled: the medicine has
\* exactly 2 movements, the sale's 'keluar' and its 'masuk' reversal
CreatedThenCancelled ==
    /\ ServedBy("updateTransactionStatus")
    /\ last.request.paymentStatus = "cancelled"
    /\ last.request.was # "cancelled"
    /\ clock = 2
    /\ Len(transaction_medicines) = 1
    /\ Len(stock_movements) = 2
    /\ stock_movements[1].movement_type = "keluar"
    /\ stock_movements[2].movement_type = "masuk"
    /\ stock_movements[2].medicine_id = stock_movements[1].medicine_id
    /\ \A m \in DOMAIN medicines : Stock(m) = InitialStock[m]

(* C10: updateTransactionStatus from cancelled to pending or paid is       *)
(* rejected with the insufficient-stock error whenever a line-item         *)
(* medicine has less stock than the line's quantity, and a rejected call   *)
(* changes nothing: payment_status stays cancelled and no medicine and no  *)
(* movement changes, also for the lines debited before the error.          *)
LacksStock(id) ==
    \E i \in 1..Len(transaction_medicines) :
        /\ transaction_medicines[i].transaction_id = id
        /\ Stock(transaction_medicines[i].medicine_id)
               < transaction_medicines[i].quantity

ReactivationIsAllOrNothing ==
    [][ (/\ last'.op = "updateTransactionStatus"
         /\ last'.request.was = "cancelled"
         /\ last'.request.paymentStatus # "cancelled")
        => /\ LacksStock(last'.request.id) => last'.err = "insufficient_stock"
           /\ last'.err # "ok" => UNCHANGED tables
      ]_vars

\* a reactivation was rejected at its second line, after the first line's
\* medicine had been debited again inside the call
ReactivationRejectedAtSecondLine ==
    /\ RejectedBy("updateTransactionStatus")
    /\ last.err = "insufficient_stock"
    /\ last.line = 2
    /\ transactions[last.request.id].payment_status = "cancelled"
    /\ Len(transaction_medicines) = 2
    /\ transaction_medicines[1].medicine_id # transaction_medicines[2].medicine_id
    /\ Stock(transaction_medicines[1].medicine_id)
           >= transaction_medicines[1].quantity

(* C11: the stock-movement log is append-only.  Every request leaves the   *)
(* movements that existed in place and unmodified (deleteTransaction       *)
(* included); the one exception is a deleteMedicine that returns true for  *)
(* a medicine no transaction line references, which removes exactly the    *)
(* movements of that medicine.                                             *)
MovementLogAppendOnly ==
    [][ \/ IsPrefix(stock_movements, stock_movements')
        \/ /\ last'.op = "deleteMedicine"
           /\ last'.returned = TRUE
           /\ ~Exists(transaction_medicines,
                      "medicine_id", last'.request.id)
           /\ stock_movements' =
                  DeleteWhere(stock_movements,
                              "medicine_id", last'.request.id)
      ]_vars

(* C12: traceability.  Every createTransaction, updateTransactionStatus,   *)
(* createStockMovement, adjustStock and updateMedicine call changes each   *)
(* medicine's stock_quantity by exactly the quantity of the 'masuk'        *)
(* movements minus the quantity of the 'keluar' movements the call adds    *)
(* for it, so that stock = stock at creation + 'masuk' - 'keluar' is kept  *)
(* by every run of these calls.                                            *)
LedgerOperations ==
    {"createTransaction", "updateTransactionStatus", "createStockMovement",
     "adjustStock", "updateMedicine"}

\* 'masuk' minus 'keluar' over the movements of medicine m in a log
NetMoved(log, m) ==
    QuantityOf(SelectSeq(log, LAMBDA r : r.medicine_id = m
                                         /\ r.movement_type = "masuk"))
    - QuantityOf(SelectSeq(log, LAMBDA r : r.medicine_id = m
                                           /\ r.movement_type = "keluar"))

StockChangesAreRecorded ==
    [][ last'.op \in LedgerOperations
        => \A m \in DOMAIN medicines :
              medicines'[m].stock_quantity - Stock(m)
                  = NetMoved(stock_movements', m) - NetMoved(stock_movements, m)
      ]_vars

\* the same, for the calls the store serves without failing a statement
StockChangesAreRecordedUnlessStoreFails ==
    [][ (last'.op \in LedgerOperations /\ last'.err # "store_error")
        => \A m \in DOMAIN medicines :
              medicines'[m].stock_quantity - Stock(m)
                  = NetMoved(stock_movements', m) - NetMoved(stock_movements, m)
      ]_vars

(* C13: createStockMovement.  An unknown medicine id is rejected as not     *)
(* found; a 'keluar' movement is rejected for insufficient stock exactly   *)
(* when its quantity exceeds the stock; a rejected call writes nothing.    *)
(* Otherwise 'keluar' subtracts the quantity (down to 0 when the quantity  *)
(* equals the stock), 'masuk' adds it, and exactly one movement carrying   *)
(* the input's fields is appended.                                         *)
StockMovementContract ==
    [][ last'.op = "createStockMovement"
        => LET input == last'.request
               m == input.medicine_id
           IN IF m \notin DOMAIN medicines
              THEN last'.err = "medicine_not_found" /\ UNCHANGED tables
              ELSE IF input.movement_type = "keluar" /\ input.quantity > Stock(m)
              THEN last'.err = "insufficient_stock" /\ UNCHANGED tables
              ELSE /\ last'.err = "ok"
                   /\ medicines'[m].stock_quantity =
                          IF input.movement_type = "keluar"
                          THEN Stock(m) - input.quantity
                          ELSE Stock(m) + input.quantity
                   /\ \A o \in DOMAIN medicines \ {m} : medicines'[o] = medicines[o]
                   /\ Len(stock_movements') = Len(stock_movements) + 1
                   /\ IsPrefix(stock_movements, stock_movements')
                   /\ LET row == stock_movements'[Len(stock_movements')]
                      IN /\ row.medicine_id = m
                         /\ row.movement_type = input.movement_type
                         /\ row.quantity = input.quantity
                         /\ row.reference_id = input.reference_id
                   /\ UNCHANGED <<patients, services, transactions,
                                  transaction_services, transaction_medicines,
                                  patient_visits>>
      ]_vars

\* the whole stock of a medicine was withdrawn by the first request of the run
WholeStockWithdrawn ==
    /\ ServedBy("createStockMovement")
    /\ clock = 1
    /\ last.request.movement_type = "keluar"
    /\ last.request.quantity = InitialStock[last.request.medicine_id]
    /\ Stock(last.request.medicine_id) = 0
    /\ Len(stock_movements) = 1

(* C14: the operations that edit stock directly (createStockMovement,      *)
(* adjustStock, updateMedicine) write the stock and its movement as one    *)
(* atomic unit.  Whether the call succeeds or fails, also when the store   *)
(* fails the second write, a medicine's stock_quantity changes in a call   *)
(* exactly when the call appends a movement of that medicine, and the      *)
(* change is the movement's quantity in the movement's direction.          *)
DirectStockEdits == {"createStockMovement", "adjustStock", "updateMedicine"}

MovementsOf(log, m) == SelectSeq(log, LAMBDA r : r.medicine_id = m)

DirectEditsAreAtomic ==
    [][ last'.op \in DirectStockEdits
        => \A m \in DOMAIN medicines :
              LET before == MovementsOf(stock_movements, m)
                  after == MovementsOf(stock_movements', m)
              IN /\ IsPrefix(before, after)
                 /\ Len(after) <= Len(before) + 1
                 /\ (medicines'[m].stock_quantity # Stock(m))
                        <=> (Len(after) = Len(before) + 1)
                 /\ Len(after) = Len(before) + 1
                        => medicines'[m].stock_quantity - Stock(m)
                               = IF after[Len(after)].movement_type = "masuk"
                                 THEN after[Len(after)].quantity
                                 ELSE - after[Len(after)].quantity
      ]_vars

(* C15: adjustStock(medicineId, newQuantity) on a known medicine with      *)
(* newQuantity >= 0 succeeds.  When newQuantity equals the current stock   *)
(* it changes nothing and records no movement; otherwise it sets           *)
(* stock_quantity to newQuantity and appends exactly one movement of that  *)
(* medicine with reference_id null, type 'masuk' when newQuantity is above *)
(* the current stock and 'keluar' when below, and quantity                 *)
(* |newQuantity - current|.                                                *)
AdjustStockContract ==
    [][ ( /\ last'.op = "adjustStock"
          /\ last'.request.medicineId \in DOMAIN medicines
          /\ last'.request.newQuantity >= 0 )
        => LET m == last'.request.medicineId
               q == last'.request.newQuantity
           IN /\ last'.err = "ok"
              /\ IF q = Stock(m)
                 THEN UNCHANGED tables
                 ELSE /\ medicines'[m].stock_quantity = q
                      /\ \A o \in DOMAIN medicines \ {m} :
                             medicines'[o] = medicines[o]
                      /\ Len(stock_movements') = Len(stock_movements) + 1
                      /\ SubSeq(stock_movements', 1, Len(stock_movements))
                             = stock_movements
                      /\ LET row == stock_movements'[Len(stock_movements')]
                         IN /\ row.medicine_id = m
                            /\ row.reference_id = NULL
                            /\ row.movement_type
                                   = IF q > Stock(m) THEN "masuk" ELSE "keluar"
                            /\ row.quantity
                                   = IF q > Stock(m) THEN q - Stock(m)
                                     ELSE Stock(m) - q
                      /\ UNCHANGED <<patients, services, transactions,
                                     transaction_services,
                                     transaction_medicines, patient_visits>>
      ]_vars

\* a sale took one unit of medicine 1, then adjustStock lowered what was left
AdjustedDownAfterSale ==
    /\ last.op = "adjustStock"
    /\ last.err = "ok"
    /\ last.request.medicineId = 1
    /\ last.request.newQuantity = 0
    /\ Stock(1) = 0
    /\ Len(stock_movements) = 2
    /\ stock_movements[1].reference_id # NULL
    /\ stock_movements[2].movement_type = "keluar"
    /\ stock_movements[2].quantity = 1
    /\ stock_movements[2].reference_id = NULL

(* C16: adjustStock with newQuantity < 0 on a known medicine fails with    *)
(* the error 'Stock quantity cannot be negative', and adjustStock on an    *)
(* unknown medicine fails with 'Medicine not found'; in both cases the     *)
(* stock of every medicine, the movement log and every other table stay    *)
(* as they were.                                                           *)
AdjustStockRejections ==
    [][ last'.op = "adjustStock"
        => LET m == last'.request.medicineId
               q == last'.request.newQuantity
           IN /\ m \notin DOMAIN medicines
                    => last'.err = "medicine_not_found" /\ UNCHANGED tables
              /\ (m \in DOMAIN medicines /\ q < 0)
                    => last'.err = "negative_quantity" /\ UNCHANGED tables
      ]_vars

\* a negative target was refused after a sale had already moved stock
NegativeTargetRefused ==
    /\ last.op = "adjustStock"
    /\ last.err = "negative_quantity"
    /\ last.request.newQuantity < 0
    /\ last.request.medicineId \in DOMAIN medicines
    /\ stock_movements # <<>>

(* C17: addTransactionNotes(id, notes) on an existing transaction sets its *)
(* notes to the given text and may change its updated_at, and changes      *)
(* nothing else: its payment_status, total_amount and patient, every other *)
(* transaction, the line items, every medicine's stock, the movement log   *)
(* and the other tables are as before.  For an absent id it fails with     *)
(* 'Transaction not found' and writes nothing.                             *)
NotesTouchOnlyNotes ==
    [][ last'.op = "addTransactionNotes"
        => LET id == last'.request.id
           IN IF id \in DOMAIN transactions
              THEN /\ last'.err = "ok"
                   /\ DOMAIN transactions' = DOMAIN transactions
                   /\ transactions'[id].notes = last'.request.notes
                   /\ transactions'[id].payment_status
                          = transactions[id].payment_status
                   /\ transactions'[id].total_amount
                          = transactions[id].total_amount
                   /\ transactions'[id].patient_id
                          = transactions[id].patient_id
                   /\ \A o \in DOMAIN transactions \ {id} :
                          transactions'[o] = transactions[o]
                   /\ UNCHANGED <<patients, services, medicines,
                                  transaction_services, transaction_medicines,
                                  stock_movements, patient_visits>>
              ELSE /\ last'.err = "transaction_not_found"
                   /\ UNCHANGED tables
      ]_vars

\* notes were added to a sale that had debited stock
NotesAddedToSale ==
    /\ last.op = "addTransactionNotes"
    /\ last.err = "ok"
    /\ last.request.id \in DOMAIN transactions
    /\ transactions[last.request.id].notes = last.request.notes
    /\ transactions[last.request.id].notes # NULL
    /\ transactions[last.request.id].updated_at = clock
    /\ transaction_medicines # <<>>
    /\ stock_movements # <<>>

(* C18: line items are immutable snapshots.  A call of updateMedicine,     *)
(* updateService, updateTransactionStatus or addTransactionNotes, served   *)
(* or rejected, leaves every service line and every medicine line of       *)
(* every transaction (quantity, price_per_unit, total_price) and every     *)
(* transaction's total_amount as they were.                                *)
SnapshotPreservingOperations ==
    {"updateMedicine", "updateService", "updateTransactionStatus",
     "addTransactionNotes"}

LineItemsAreSnapshots ==
    [][ last'.op \in SnapshotPreservingOperations
        => /\ transaction_services' = transaction_services
           /\ transaction_medicines' = transaction_medicines
           /\ DOMAIN transactions' = DOMAIN transactions
           /\ \A id \in DOMAIN transactions :
                  transactions'[id].total_amount = transactions[id].total_amount
      ]_vars

\* both catalog prices were changed after a sale; the sale's lines still
\* carry the prices it was made at
CatalogRepricedAfterSale ==
    /\ last.op \in {"updateMedicine", "updateService"}
    /\ last.err = "ok"
    /\ \E i \in DOMAIN transaction_medicines :
          LET line == transaction_medicines[i]
          IN /\ line.medicine_id \in DOMAIN medicines
             /\ medicines[line.medicine_id].price_per_unit # line.price_per_unit
    /\ \E i \in DOMAIN transaction_services :
          LET line == transaction_services[i]
          IN /\ line.service_id \in DOMAIN services
             /\ services[line.service_id].price # line.price_per_unit

(* C19: while some transaction_medicines row references a medicine,        *)
(* deleteMedicine of that medicine returns false and deletes nothing; and  *)
(* after any sequence of handler calls every transaction_medicines row     *)
(* references a medicine that exists.                                      *)
ReferencedMedicinesAreKept ==
    /\ [](\A i \in DOMAIN transaction_medicines :
              transaction_medicines[i].medicine_id \in DOMAIN medicines)
    /\ [][ ( /\ last'.op = "deleteMedicine"
             /\ Exists(transaction_medicines,
                       "medicine_id", last'.request.id) )
           => /\ last'.returned = FALSE
              /\ UNCHANGED tables
         ]_vars

\* deleteMedicine was refused for a medicine that a sale references
SoldMedicineNotDeleted ==
    /\ last.op = "deleteMedicine"
    /\ last.returned = FALSE
    /\ last.request.id \in DOMAIN medicines
    /\ Exists(transaction_medicines, "medicine_id", last.request.id)

(* C20: deleteService of a service that some transaction_services row      *)
(* references returns true, keeps the service and sets its is_active to    *)
(* false, changing nothing else but its updated_at; deleteService of an    *)
(* existing service that no row references returns true and deletes it.    *)
(* createTransaction with a line naming an inactive service is rejected    *)
(* and writes nothing (as 'service_inactive' when that line is the first   *)
(* one that fails validation), and an inactive service becomes active only *)
(* by an updateService call that sets is_active to true.                   *)
Referenced(s) == Exists(transaction_services, "service_id", s)

NamesInactiveService(input) ==
    \E i \in DOMAIN input.services :
        /\ input.services[i].service_id \in DOMAIN services
        /\ ~services[input.services[i].service_id].is_active

DeleteServiceDeactivatesWhenReferenced ==
    [][ /\ ( /\ last'.op = "deleteService"
             /\ last'.request.id \in DOMAIN services )
           => LET s == last'.request.id
              IN /\ last'.returned = TRUE
                 /\ IF Referenced(s)
                    THEN /\ DOMAIN services' = DOMAIN services
                         /\ services'[s].is_active = FALSE
                         /\ services'[s].price = services[s].price
                    ELSE DOMAIN services' = DOMAIN services \ {s}
                 /\ \A o \in DOMAIN services \ {s} : services'[o] = services[o]
                 /\ UNCHANGED <<patients, medicines, transactions,
                                transaction_services, transaction_medicines,
                                stock_movements, patient_visits>>
        /\ ( /\ last'.op = "createTransaction"
             /\ NamesInactiveService(last'.request) )
           => /\ last'.err # "ok"
              /\ UNCHANGED tables
              /\ ( /\ last'.request.patient_id \in patients
                   /\ last'.request.services[1].service_id \in DOMAIN services
                   /\ ~services[last'.request.services[1].service_id].is_active )
                 => last'.err = "service_inactive"
        /\ \A s \in DOMAIN services :
              ( /\ ~services[s].is_active
                /\ s \in DOMAIN services'
                /\ services'[s].is_active )
              => /\ last'.op = "updateService"
                 /\ last'.request.id = s
                 /\ last'.request.is_active = <<TRUE>>
      ]_vars

\* a service that was active and sold is kept, inactive, by deleteService
SoldServiceDeactivated ==
    /\ last.op = "deleteService"
    /\ last.returned = TRUE
    /\ last.request.id \in DOMAIN services
    /\ ~services[last.request.id].is_active
    /\ services[last.request.id].updated_at = clock
    /\ Referenced(last.request.id)

(* C21: deleteTransaction(id) returns false and changes nothing when the   *)
(* transaction is absent or its payment_status is 'paid'.  For a pending   *)
(* or cancelled transaction it returns true, removes the transaction and   *)
(* all its service lines and medicine lines, leaves the other              *)
(* transactions and their lines as they were, and keeps every patient      *)
(* visit, setting transaction_id to null on the visits of that             *)
(* transaction.                                                            *)
OfOtherTransactions(rows, id) == SelectSeq(rows, LAMBDA r : r.transaction_id # id)

HasRecords(p) ==
    \/ \E t \in DOMAIN transactions : transactions[t].patient_id = p
    \/ \E i \in DOMAIN patient_visits : patient_visits[i].patient_id = p

PatientsWithRecordsAreKept ==
    /\ [](/\ \A t \in DOMAIN transactions :
                transactions[t].patient_id \in patients
          /\ \A i \in DOMAIN patient_visits :
                patient_visits[i].patient_id \in patients)
    /\ [][ last'.op = "deletePatient"
           => LET p == last'.request.id
              IN IF p \notin patients \/ HasRecords(p)
                 THEN last'.returned = FALSE /\ UNCHANGED tables
                 ELSE /\ last'.returned = TRUE
                      /\ patients' = patients \ {p}
                      /\ UNCHANGED <<services, medicines, transactions,
                                     transaction_services,
                                     transaction_medicines, stock_movements,
                                     patient_visits>>
         ]_vars

\* the patient's only sale was deleted; its visit, now without a
\* transaction, still keeps the patient from being deleted
PatientKeptForVisitAlone ==
    /\ last.op = "deletePatient"
    /\ last.returned = FALSE
    /\ last.request.id \in patients
    /\ \A t \in DOMAIN transactions :
           transactions[t].patient_id # last.request.id
    /\ \E i \in DOMAIN patient_visits :
           /\ patient_visits[i].patient_id = last.request.id
           /\ patient_visits[i].transaction_id = NULL

(* C23: two concurrent initializeDefaultSettings calls that both observe   *)
(* an empty settings table race harmlessly: whenever two such calls have   *)
(* both finished, neither has failed, and the table holds exactly one row  *)
(* per default key.                                                        *)
SawEmptyTable(s) ==
    /\ sessions[s].op = "initializeDefaultSettings"
    /\ sessions[s].pc = "done"
    /\ sessions[s].seen.settings = <<>>

ConcurrentInitializersBothSucceed ==
    \A s, t \in Sessions :
        (s # t /\ SawEmptyTable(s) /\ SawEmptyTable(t))
        => /\ sessions[s].err = "ok"
           /\ sessions[t].err = "ok"
           /\ \A k \in KeysOf(DefaultSettings) :
                  Cardinality({i \in DOMAIN settings : settings[i].key = k}) = 1

(* C24: run one after the other, initializeDefaultSettings never fails; on *)
(* an empty settings table it inserts the 7 default keys, and when any row *)
(* exists it inserts nothing, so any number of calls from an empty table   *)
(* leaves 7 rows.  The keys of the table are always pairwise distinct, and *)
(* updateSetting of an existing key changes that row's value in place and  *)
(* adds no row.                                                            *)
DistinctKeys(rows) == Cardinality(KeysOf(rows)) = Len(rows)

SettingsInitializedOnce ==
    /\ [] DistinctKeys(settings)
    /\ [][ last'.op = "initializeDefaultSettings"
           => /\ last'.err = "ok"
              /\ IF settings = <<>>
                 THEN /\ Len(settings') = 7
                      /\ KeysOf(settings') = KeysOf(DefaultSettings)
                      /\ Cardinality(KeysOf(settings')) = 7
                 ELSE settings' = settings
         ]_vars
    /\ [][ ( /\ last'.op = "updateSetting"
             /\ last'.request.key \in KeysOf(settings) )
           => /\ last'.err = "ok"
              /\ Len(settings') = Len(settings)
              /\ \A i \in DOMAIN settings :
                     /\ settings'[i].key = settings[i].key
                     /\ settings'[i].value
                            = IF settings[i].key = last'.request.key
                              THEN last'.request.value ELSE settings[i].value
         ]_vars

\* a default key was changed after the first initialization, and a second
\* initialization left the 7 rows and the changed value alone
InitializedAgainAfterUpdate ==
    /\ last.op = "initializeDefaultSettings"
    /\ clock = 3
    /\ Len(settings) = 7
    /\ settings[1].key = "clinic_name"
    /\ settings[1].value = "A"
    /\ settings[1].updated_at = 2
    /\ settings[2].updated_at = 1

(* C25: every successful createTransaction inserts exactly one             *)
(* patient_visits row, carrying the input's patient_id and the id of the   *)
(* transaction it created, together with that transaction; and a           *)
(* createTransaction that fails, also when it fails at the insert of the   *)
(* visit, leaves no header, line item, stock debit, stock movement or      *)
(* visit of that call.                                                     *)
CreateTransactionRecordsVisit ==
    [][ last'.op = "createTransaction"
        => IF last'.err = "ok"
           THEN /\ Len(patient_visits') = Len(patient_visits) + 1
                /\ SubSeq(patient_visits', 1, Len(patient_visits)) = patient_visits
                /\ LET visit == patient_visits'[Len(patient_visits')]
                   IN /\ visit.patient_id = last'.request.patient_id
                      /\ visit.transaction_id = nextId.transactions
                      /\ visit.transaction_id \in DOMAIN transactions'
                      /\ visit.transaction_id \notin DOMAIN transactions
           ELSE UNCHANGED tables
      ]_vars

\* after a sale that was served, a second sale with a medicine line failed
\* at the insert of its visit: the first sale and its visit are all there is
SecondSaleFailedAtVisit ==
    /\ last.op = "createTransaction"
    /\ last.err = "store_error"
    /\ last.request.medicines # <<>>
    /\ DOMAIN transactions = {1}
    /\ Len(patient_visits) = 1
    /\ patient_visits[1].transaction_id = 1
    /\ Len(transaction_services) = 1
    /\ Len(stock_movements) = Len(transaction_medicines)
    /\ \A i \in DOMAIN stock_movements : stock_movements[i].reference_id = 1

(* C26: createPatientVisit fails with 'Patient ... not found' when         *)
(* patient_id names no patient, and with 'Transaction ... not found' when  *)
(* a transaction_id is given (not null) and names no transaction; in both  *)
(* cases it inserts no visit.  Otherwise it succeeds and inserts exactly   *)
(* one visit row with the input's patient_id and transaction_id.           *)
CreatePatientVisitContract ==
    [][ last'.op = "createPatientVisit"
        => LET input == last'.request
           IN IF input.patient_id \notin patients
              THEN last'.err = "patient_not_found" /\ UNCHANGED tables
              ELSE IF /\ input.transaction_id # <<>>
                      /\ input.transaction_id[1] \notin DOMAIN transactions
                   THEN last'.err = "transaction_not_found" /\ UNCHANGED tables
              ELSE /\ last'.err = "ok"
                   /\ patient_visits'
                          = Append(patient_visits,
                                   [patient_id |-> input.patient_id,
                                    transaction_id |-> Nullable(input.transaction_id),
                                    visit_date |-> input.visit_date])
                   /\ UNCHANGED <<patients, services, medicines, transactions,
                                  transaction_services, transaction_medicines,
                                  stock_movements, settings>>
      ]_vars

(* C27: updateTransactionStatus from pending to paid or from paid to       *)
(* pending (or to the same of the two) succeeds, changes no medicine and   *)
(* inserts no stock movement: only payment_status and updated_at of that   *)
(* transaction change.  An updateTransactionStatus call changes a medicine *)
(* or the movement log only when the status it found or the status it      *)
(* sets is 'cancelled'.                                                    *)
Uncancelled == {"pending", "paid"}

PendingPaidLeavesStockAlone ==
    [][ ( /\ last'.op = "updateTransactionStatus"
          /\ last'.request.id \in DOMAIN transactions )
        => LET id == last'.request.id
               was == transactions[id].payment_status
               paymentStatus == last'.request.paymentStatus
           IN /\ (was \in Uncancelled /\ paymentStatus \in Uncancelled)
                 => /\ last'.err = "ok"
                    /\ DOMAIN transactions' = DOMAIN transactions
                    /\ transactions'[id]
                           = [transactions[id] EXCEPT
                                 !.payment_status = paymentStatus,
                                 !.updated_at = transactions'[id].updated_at]
                    /\ \A o \in DOMAIN transactions \ {id} :
                           transactions'[o] = transactions[o]
                    /\ UNCHANGED <<patients, services, medicines,
                                   transaction_services, transaction_medicines,
                                   stock_movements, patient_visits, settings>>
              /\ (medicines' # medicines \/ stock_movements' # stock_movements)
                 => (was = "cancelled" \/ paymentStatus = "cancelled")
      ]_vars

\* a pending sale of a medicine was marked paid: its one debit is all the
\* stock has seen
PendingSaleMarkedPaid ==
    /\ last.op = "updateTransactionStatus"
    /\ last.err = "ok"
    /\ last.request.was = "pending"
    /\ last.request.paymentStatus = "paid"
    /\ transactions[last.request.id].payment_status = "paid"
    /\ transactions[last.request.id].updated_at = clock
    /\ clock = 2
    /\ transaction_medicines # <<>>
    /\ Len(stock_movements) = Len(transaction_medicines)

(* C28: deleteTransaction needs no stock restoration.  When every          *)
(* medicine's stock_quantity equals its initial stock plus the 'masuk'     *)
(* and minus the 'keluar' quantities of its recorded movements, and        *)
(* deleteTransaction then succeeds (deleting the transaction's line items  *)
(* and the movements with reference_id = id), the equation still holds     *)
(* for the remaining movements.                                            *)
LedgerBalanced(stock, log) ==
    \A m \in DOMAIN stock :
        stock[m].stock_quantity = InitialStock[m] + NetMoved(log, m)

DeleteTransactionKeepsLedger ==
    [][ ( /\ last'.op = "deleteTransaction"
          /\ last'.returned = TRUE
          /\ LedgerBalanced(medicines, stock_movements) )
        => LedgerBalanced(medicines', stock_movements')
      ]_vars

(* C29: concurrent updateTransactionStatus calls on one transaction have   *)
(* the stock effect of some serial order.  Take a run in which one         *)
(* transaction was created, not as 'cancelled', every later request is an  *)
(* updateTransactionStatus on it, none of them found it 'cancelled' and    *)
(* set another status (so no serial order deducts again), and all have     *)
(* finished.  Then each medicine was restored at most once, and its stock  *)
(* is the initial stock when the transaction is now 'cancelled' and the    *)
(* initial stock less the transaction's line quantity otherwise.           *)
FoundStatus(s) ==
    LET seen == sessions[s].seen.transactions
        id == sessions[s].request.id
    IN IF id \in DOMAIN seen THEN seen[id].payment_status ELSE "none"

OnlyStatusUpdatesOfOneSale ==
    /\ InFlight = {}
    /\ sessions[1].op = "createTransaction"
    /\ Served(1)
    /\ sessions[1].request.payment_status # "cancelled"
    /\ \A s \in Sessions \ {1} :
          sessions[s].pc # "idle"
          => /\ sessions[s].op = "updateTransactionStatus"
             /\ ~IsReactivation(FoundStatus(s), sessions[s].request.paymentStatus)

StatusRacesSerialized ==
    OnlyStatusUpdatesOfOneSale
    => \A m \in RaceMedicines :
          /\ MovedQuantity(1, m, "masuk") <= LineQuantity(1, m)
          /\ Stock(m) = InitialStock[m]
                        - (IF transactions[1].payment_status = "cancelled"
                           THEN 0 ELSE LineQuantity(1, m))

(* C30: concurrent relative stock changes on one medicine never lose an    *)
(* update.  Whenever no request is between its reads and its commit,       *)
(* every medicine's stock_quantity equals its initial stock plus the       *)
(* 'masuk' and minus the 'keluar' quantities of the recorded movements,    *)
(* whatever the interleaving of the createStockMovement, createTransaction *)
(* and updateTransactionStatus calls that committed.                       *)
NoLostStockUpdate ==
    InFlight = {}
    => \A m \in DOMAIN medicines :
          Stock(m) = InitialStock[m] + NetMoved(stock_movements, m)

=============================================================================
